---- MODULE Spec2Model ----
(***************************************************************************)
(* Model of netlify/functions/voter_registration.ts: one invocation of the *)
(* handler, from the secret check to the response, with the roster fetch   *)
(* and the webhook update calls as its environment.                        *)
(*                                                                         *)
(* JavaScript strings are TLA+ strings (TLC evaluates Len, \o and SubSeq   *)
(* on them), so lengths, escaping, trimming and splitting are computed on  *)
(* the actual text.  A JavaScript number is a record that is either NaN or *)
(* an integer.  A value that may be undefined is a sequence of length 0    *)
(* (undefined) or 1.                                                       *)
(***************************************************************************)
EXTENDS Integers, Sequences, FiniteSets, TLC

\* Largest number of entrant rows in a fetched roster.
MaxRows == 2

backlogDays == 31
tsvSkipRows == 2
daySec == 24 * 60 * 60
\* The literal of the length test of the packer.
MsgLimit == 2000

----------------------------------------------------------------------------
(* Values *)

None == <<>>
Some(v) == <<v>>

NaN == [nan |-> TRUE, v |-> 0]
Num(n) == [nan |-> FALSE, v |-> n]

\* a > b and a < b on numbers: false as soon as one side is NaN.
Gt(a, b) == ~a.nan /\ ~b.nan /\ a.v > b.v
Lt(a, b) == ~a.nan /\ ~b.nan /\ a.v < b.v
\* a - b
Minus(a, b) == IF a.nan \/ b.nan THEN NaN ELSE Num(a.v - b.v)
\* The text a template literal or a string concatenation gives a number.
NumToString(a) == IF a.nan THEN "NaN" ELSE ToString(a.v)

----------------------------------------------------------------------------
(* String helpers of the runtime *)

CharAt(s, i) == SubSeq(s, i, i)

\* The white space String.prototype.trim removes, within the alphabet of
\* the rosters of this model.
WhiteSpace == {" ", "\t", "\n", "\r"}

RECURSIVE FirstNonWs(_, _, _)
\* Least index in lo..hi of a non-white-space character of s, or 0.
FirstNonWs(s, lo, hi) ==
    IF lo > hi THEN 0
    ELSE IF lo = hi THEN (IF CharAt(s, lo) \in WhiteSpace THEN 0 ELSE lo)
    ELSE LET mid == (lo + hi) \div 2
             l == FirstNonWs(s, lo, mid)
         IN  IF l # 0 THEN l ELSE FirstNonWs(s, mid + 1, hi)

RECURSIVE LastNonWs(_, _, _)
\* Greatest index in lo..hi of a non-white-space character of s, or 0.
LastNonWs(s, lo, hi) ==
    IF lo > hi THEN 0
    ELSE IF lo = hi THEN (IF CharAt(s, lo) \in WhiteSpace THEN 0 ELSE lo)
    ELSE LET mid == (lo + hi) \div 2
             r == LastNonWs(s, mid + 1, hi)
         IN  IF r # 0 THEN r ELSE LastNonWs(s, lo, mid)

\* String.prototype.trim
Trim(s) ==
    LET f == FirstNonWs(s, 1, Len(s))
    IN  IF f = 0 THEN "" ELSE SubSeq(s, f, LastNonWs(s, f, Len(s)))

\* String.prototype.split with a one-character separator: always at least
\* one field.
Split(s, sep) ==
    LET P == {i \in 1..Len(s) : CharAt(s, i) = sep}
        n == Cardinality(P)
        Pos(k) == IF k = 0 THEN 0
                  ELSE IF k = n + 1 THEN Len(s) + 1
                  ELSE CHOOSE p \in P : Cardinality({q \in P : q < p}) = k - 1
    IN  [k \in 1..(n + 1) |-> SubSeq(s, Pos(k - 1) + 1, Pos(k) - 1)]

RECURSIVE Join(_, _)
\* Array.prototype.join
Join(parts, sep) ==
    IF Len(parts) = 0 THEN ""
    ELSE IF Len(parts) = 1 THEN parts[1]
    ELSE parts[1] \o sep \o Join(Tail(parts), sep)

Digits == {"0", "1", "2", "3", "4", "5", "6", "7", "8", "9"}
DigitVal(c) == CHOOSE d \in 0..9 : ToString(d) = c

RECURSIVE DigitsValue(_)
DigitsValue(s) ==
    IF Len(s) = 0 THEN 0
    ELSE 10 * DigitsValue(SubSeq(s, 1, Len(s) - 1)) + DigitVal(CharAt(s, Len(s)))

\* Unary plus on a destructured array element: undefined gives NaN, white
\* space is trimmed, the empty string gives 0, a run of decimal digits its
\* value and any other text of the rosters of this model NaN.
ToNumber(opt) ==
    IF opt = None THEN NaN
    ELSE LET t == Trim(opt[1])
         IN  IF \A i \in 1..Len(t) : CharAt(t, i) \in Digits
             THEN Num(DigitsValue(t))
             ELSE NaN

----------------------------------------------------------------------------
(* Dates *)

DayFromYear(y) ==
    365 * (y - 1970) + ((y - 1969) \div 4) - ((y - 1901) \div 100)
        + ((y - 1601) \div 400)

InLeapYear(y) == (y % 4 = 0 /\ y % 100 # 0) \/ y % 400 = 0

\* Days of the year before month m (0-based; 12 is the end of the year).
MonthStart(m, y) ==
    <<0, 31, 59, 90, 120, 151, 181, 212, 243, 273, 304, 334, 365>>[m + 1]
        + (IF m >= 2 /\ InLeapYear(y) THEN 1 ELSE 0)

\* Date.UTC(year, month, day) in seconds instead of milliseconds (the
\* result is a whole number of days, so nothing is lost): years 0..99 are
\* 1900..1999, a month outside 0..11 carries into the year, the day counts
\* from the first of the month.
DateUTC(year, month, day) ==
    IF year.nan \/ month.nan \/ day.nan THEN NaN
    ELSE LET yr == IF year.v >= 0 /\ year.v <= 99 THEN 1900 + year.v ELSE year.v
             ym == yr + (month.v \div 12)
             mn == month.v % 12
         IN  Num((DayFromYear(ym) + MonthStart(mn, ym) + day.v - 1) * 86400)

\* expects DD/MM/YYYY format
parseDateStr(str) ==
    LET parts == Split(Trim(str), "/")
        Part(k) == IF k <= Len(parts) THEN Some(parts[k]) ELSE None
        dd == ToNumber(Part(1))
        mm == ToNumber(Part(2))
        yyyy == ToNumber(Part(3))
    IN  DateUTC(yyyy, Minus(mm, Num(1)), dd)

Pad2(n) == IF n < 10 THEN "0" \o ToString(n) ELSE ToString(n)
Pad4(n) == IF n < 10 THEN "000" \o ToString(n)
           ELSE IF n < 100 THEN "00" \o ToString(n)
           ELSE IF n < 1000 THEN "0" \o ToString(n)
           ELSE ToString(n)

\* new Date(1000 * sec).toISOString() for a valid time from 1970 to 2037 (a
\* NaN time throws instead, see Return).
toISOString(sec) ==
    LET day == sec.v \div 86400
        tod == sec.v % 86400
        y == CHOOSE yy \in 1970..2037 :
                 DayFromYear(yy) <= day /\ day < DayFromYear(yy + 1)
        doy == day - DayFromYear(y)
        m == CHOOSE mm \in 0..11 :
                 MonthStart(mm, y) <= doy /\ doy < MonthStart(mm + 1, y)
        d == doy - MonthStart(m, y) + 1
    IN  Pad4(y) \o "-" \o Pad2(m + 1) \o "-" \o Pad2(d) \o "T"
            \o Pad2(tod \div 3600) \o ":" \o Pad2((tod % 3600) \div 60) \o ":"
            \o Pad2(tod % 60) \o ".000Z"

----------------------------------------------------------------------------
(* Rendering *)

\* The characters escapeRaw prefixes with a backslash.  The grave accent,
\* which the source also escapes, cannot be written in a TLA+ string and
\* occurs in no roster of this model.
FormattingChars == {"_", "~", "*", "\\"}

RECURSIVE escapeRaw(_)
\* escape Discord formatting characters
escapeRaw(s) ==
    IF Len(s) = 0 THEN ""
    ELSE IF Len(s) = 1 THEN (IF s \in FormattingChars THEN "\\" \o s ELSE s)
    ELSE LET h == Len(s) \div 2
         IN  escapeRaw(SubSeq(s, 1, h)) \o escapeRaw(SubSeq(s, h + 1, Len(s)))

\* The initial value of fullMsg.
Header(sheetSec) ==
    "Up-To-Date Voter Registration (as of <t:" \o NumToString(sheetSec)
        \o ":D>)\n\nThese individuals are registered to vote in all elections, through the date listed. If your name is not currently listed, or ~~crossed out~~, you are not registered to vote.\n"

UpcomingLine(name, validSec, expireSec) ==
    "*~~" \o name \o "~~ (begins <t:" \o NumToString(validSec)
        \o ":D>) (valid through <t:" \o NumToString(expireSec) \o ":D>)*"

ActiveLine(name, expireSec) ==
    "**" \o name \o "** (valid through <t:" \o NumToString(expireSec) \o ":D>)"

ExpiredLine(name, expireSec) ==
    "~~" \o name \o "~~ (ended <t:" \o NumToString(expireSec) \o ":D>)"

\* RenderLine with the Active test before the Upcoming test.
RenderLineActiveFirst(name, validSec, expireSec, sheetSec) ==
    IF Gt(expireSec, sheetSec) THEN ActiveLine(name, expireSec)
    ELSE IF Gt(validSec, sheetSec) THEN UpcomingLine(name, validSec, expireSec)
    ELSE ExpiredLine(name, expireSec)

\* The if/else if/else that chooses the line of a displayed row.
RenderLine(name, validSec, expireSec, sheetSec) ==
    IF Gt(validSec, sheetSec) THEN UpcomingLine(name, validSec, expireSec)
    ELSE IF Gt(expireSec, sheetSec) THEN ActiveLine(name, expireSec)
    ELSE ExpiredLine(name, expireSec)

\* TooStale with the backlog one day too long.
TooStaleOffByOneDay(expireSec, sheetSec) ==
    Lt(expireSec, Minus(sheetSec, Num((backlogDays + 1) * daySec)))

\* The test that drops a row from the display.
TooStale(expireSec, sheetSec) ==
    Lt(expireSec, Minus(sheetSec, Num(backlogDays * daySec)))

\* Fits with the limit itself allowed.
FitsInclusive(msg, ln) == Len(msg \o ln) <= MsgLimit

\* Fits with the newline separator counted.
FitsWithSeparator(msg, ln) == Len(msg \o "\n" \o ln) < MsgLimit

\* The test of the packer.
Fits(msg, ln) == Len(msg \o ln) < MsgLimit

\* Pack that starts the new block empty: the overflowing line is lost.
PackDropsOverflow(msgs, msg, ln) ==
    IF Fits(msg, ln)
    THEN [fullMsgs |-> msgs, fullMsg |-> msg \o "\n" \o ln]
    ELSE [fullMsgs |-> Append(msgs, msg), fullMsg |-> ""]

\* The packer's step on one line: the new fullMsgs and fullMsg.
Pack(msgs, msg, ln) ==
    IF Fits(msg, ln)
    THEN [fullMsgs |-> msgs, fullMsg |-> msg \o "\n" \o ln]
    ELSE [fullMsgs |-> Append(msgs, msg), fullMsg |-> Trim(ln)]

----------------------------------------------------------------------------
(* The environment: configurations, requests, rosters, responses *)

\* process.env: the four variables, each unset or a string.
Envs ==
    [VOTER_REGISTRATION_TSV_URL : {None, Some("https://sheet.example/tsv")},
     VOTER_REGISTRATION_WEBHOOK_URL : {Some(""), Some("https://hook.example/wh")},
     VOTER_REGISTRATION_MSG_IDS : {None, Some("7 8")},
     VOTER_REGISTRATION_SECRET : {None, Some("s3")}]

\* The incoming events: no query string at all, a query string without
\* secret, the right secret, the right secret in another case.
Events ==
    [queryStringParameters :
        {None, Some([secret |-> None]), Some([secret |-> Some("s3")]),
         Some([secret |-> Some("S3")])}]

RECURSIVE Repeat(_, _)
Repeat(c, n) ==
    IF n = 0 THEN ""
    ELSE IF n = 1 THEN c
    ELSE Repeat(c, n \div 2) \o Repeat(c, n - (n \div 2))

InfoRow == "Voter registry export"
HeaderRow(dateStr) ==
    "Name\tTag\tValid\tExpires\t\t\t\tLast updated\t" \o dateStr
SheetDate == "01/06/2024"
SheetSec == parseDateStr(SheetDate)

\* An active row whose rendered line is n characters long.
LongRow(n) ==
    Repeat("x", n - Len(ActiveLine("", parseDateStr("01/07/2024"))))
        \o "\tL\t01/05/2024\t01/07/2024"

\* The entrant rows a roster of this model is made of: active since the
\* sheet date (name to trim and to escape, a fifth column), upcoming, stale
\* by one day, expired on the last day of the backlog, blank, three columns
\* only, malformed validFrom, and three long names that bring header plus
\* line to MsgLimit - 1, to MsgLimit, and the line alone above MsgLimit.
SampleRows ==
    {" Al_ce~ \tA\t01/06/2024\t01/07/2024\tnote",
     "Bob\tB\t01/07/2024\t01/08/2024",
     "Carl\tC\t01/01/2024\t30/04/2024",
     "Dan\tD\t01/01/2024\t 01/05/2024 ",
     " \t ",
     "Eve\tE\t01/05/2024",
     "Fay\tF\tsoon\t01/07/2024",
     LongRow(MsgLimit - 1 - Len(Header(SheetSec))),
     LongRow(MsgLimit - Len(Header(SheetSec))),
     LongRow(MsgLimit + 1)}

\* The sequences of at most n entrant rows.
EntrantRows(n) == UNION {[1..k -> SampleRows] : k \in 0..n}

\* The roster texts the fetch can return: one row only, a second row
\* without column 8, a well-formed second row followed by up to MaxRows
\* entrant rows, and a second row with a malformed date followed by fewer.
Rosters ==
    {InfoRow, Join(<<InfoRow, "Name\tTag">>, "\n")}
        \cup {Join(<<InfoRow, HeaderRow(SheetDate)>> \o rows, "\n") :
                 rows \in EntrantRows(MaxRows)}
        \cup {Join(<<InfoRow, HeaderRow("TBD")>> \o rows, "\n") :
                 rows \in EntrantRows(MaxRows - 1)}

\* What an update call can do: answer 2xx, answer non-2xx, throw.
UpdateOutcomes ==
    {[throws |-> FALSE, status |-> 204, text |-> ""],
     [throws |-> FALSE, status |-> 404, text |-> "Unknown Message"],
     [throws |-> TRUE, status |-> 0, text |-> ""]}

----------------------------------------------------------------------------
(* State *)

VARIABLES
    env,                  \* process.env
    pc,                   \* "start", "fetch", "rows", "publish", "done"
    event,                \* the event of the invocation
    tsv,                  \* the fetched roster text
    tsvLines,             \* the array the row loop iterates over
    sheetLastUpdatedSec,
    fullMsgs,
    fullMsg,
    numPlayers,
    rowIdx,               \* position of the for-of loop over the rows
    line,                 \* the line of the last iteration, if it made one
    emitted,              \* fullMsgs when the row loop has ended
    idIdx,                \* position of the for-of loop over the ids
    whRes,
    fetches,              \* the roster fetches issued
    requests,             \* the update requests issued
    result                \* how the invocation ended

vars == <<env, pc, event, tsv, tsvLines, sheetLastUpdatedSec, fullMsgs, fullMsg,
          numPlayers, rowIdx, line, emitted, idIdx, whRes, fetches, requests,
          result>>

Pending == [kind |-> "pending", statusCode |-> 0, body |-> "", error |-> ""]
Returned(code, text) ==
    [kind |-> "returned", statusCode |-> code, body |-> text, error |-> ""]
Threw(err) == [kind |-> "threw", statusCode |-> 0, body |-> "", error |-> err]

Init ==
    /\ env \in Envs
    /\ pc = "start"
    /\ event = [queryStringParameters |-> None]
    /\ tsv = ""
    /\ tsvLines = <<>>
    /\ sheetLastUpdatedSec = NaN
    /\ fullMsgs = <<>>
    /\ fullMsg = ""
    /\ numPlayers = 0
    /\ rowIdx = 1
    /\ line = None
    /\ emitted = <<>>
    /\ idIdx = 1
    /\ whRes = ""
    /\ fetches = <<>>
    /\ requests = <<>>
    /\ result = Pending

\* event.queryStringParameters?.secret
SecretParam(ev) ==
    IF ev.queryStringParameters = None THEN None
    ELSE ev.queryStringParameters[1].secret

RequiredEnv ==
    <<"VOTER_REGISTRATION_TSV_URL", "VOTER_REGISTRATION_WEBHOOK_URL",
      "VOTER_REGISTRATION_MSG_IDS">>

\* !process.env[envName]
Missing(envName) == env[envName] = None \/ env[envName][1] = ""

\* tsv.split("\n").slice(tsvSkipRows)
Rows(text) ==
    LET all == Split(text, "\n")
    IN  SubSeq(all, tsvSkipRows + 1, Len(all))

\* VOTER_REGISTRATION_MSG_IDS.split(" ")
MsgIds == Split(env.VOTER_REGISTRATION_MSG_IDS[1], " ")

\* The update request of one iteration of the publish loop; body is the
\* object JSON.stringify is given.
UpdateRequest(msgId, content) ==
    [url |-> env.VOTER_REGISTRATION_WEBHOOK_URL[1] \o "/messages/" \o msgId,
     method |-> "patch",
     headers |-> [content_type |-> "application/json"],
     body |-> [content |-> content]]

\* The handler up to the roster fetch: the secret, then the environment.
Invoke(ev) ==
    /\ pc = "start"
    /\ event' = ev
    /\ IF SecretParam(ev) # env.VOTER_REGISTRATION_SECRET
       THEN /\ result' = Returned(400, "Invalid secret")
            /\ pc' = "done"
       ELSE IF \E k \in 1..Len(RequiredEnv) : Missing(RequiredEnv[k])
       THEN LET k == CHOOSE j \in 1..Len(RequiredEnv) :
                         /\ Missing(RequiredEnv[j])
                         /\ \A h \in 1..(j - 1) : ~Missing(RequiredEnv[h])
            IN  /\ result' = Returned(500, "Missing environment variable "
                                              \o RequiredEnv[k])
                /\ pc' = "done"
       ELSE /\ result' = result
            /\ pc' = "fetch"
    /\ UNCHANGED <<env, tsv, tsvLines, sheetLastUpdatedSec, fullMsgs, fullMsg,
                   numPlayers, rowIdx, line, emitted, idIdx, whRes, fetches,
                   requests>>

\* The roster fetch answers with text; the second row's column 8 is
\* parsed and the packer is set up.  A missing second row or column 8 is a
\* TypeError.
FetchRoster(text) ==
    /\ pc = "fetch"
    /\ fetches' = Append(fetches, env.VOTER_REGISTRATION_TSV_URL[1])
    /\ tsv' = text
    /\ LET all == Split(text, "\n")
           cols == Split(all[2], "\t")
       IN  IF Len(all) < 2 \/ Len(cols) < 9
           THEN /\ result' = Threw("TypeError")
                /\ pc' = "done"
                /\ UNCHANGED <<tsvLines, sheetLastUpdatedSec, fullMsgs,
                               fullMsg, numPlayers, rowIdx>>
           ELSE /\ sheetLastUpdatedSec' = parseDateStr(cols[9])
                /\ fullMsgs' = <<>>
                /\ fullMsg' = Header(parseDateStr(cols[9]))
                /\ numPlayers' = 0
                /\ tsvLines' = Rows(text)
                /\ rowIdx' = 1
                /\ pc' = "rows"
                /\ result' = result
    /\ UNCHANGED <<env, event, line, emitted, idIdx, whRes, requests>>

\* The roster fetch throws (transport failure).
FetchRosterFails ==
    /\ pc = "fetch"
    /\ fetches' = Append(fetches, env.VOTER_REGISTRATION_TSV_URL[1])
    /\ result' = Threw("FetchError")
    /\ pc' = "done"
    /\ UNCHANGED <<env, event, tsv, tsvLines, sheetLastUpdatedSec, fullMsgs,
                   fullMsg, numPlayers, rowIdx, line, emitted, idIdx, whRes,
                   requests>>

\* ProcessRow that sends a block to the first message id as soon as the
\* packer closes it.
ProcessRowEager ==
    /\ pc = "rows"
    /\ rowIdx <= Len(tsvLines)
    /\ LET tsvLine == tsvLines[rowIdx]
           cols == Split(tsvLine, "\t")
       IN  IF Trim(tsvLine) = ""
           THEN /\ line' = None
                /\ rowIdx' = rowIdx + 1
                /\ UNCHANGED <<pc, result, numPlayers, fullMsgs, fullMsg,
                               requests>>
           ELSE IF Len(cols) < 4
           THEN /\ line' = None
                /\ result' = Threw("TypeError")
                /\ pc' = "done"
                /\ UNCHANGED <<rowIdx, numPlayers, fullMsgs, fullMsg,
                               requests>>
           ELSE LET mcName == Trim(cols[1])
                    validSec == parseDateStr(cols[3])
                    expireSec == parseDateStr(cols[4])
                    ln == RenderLine(escapeRaw(mcName), validSec, expireSec,
                                     sheetLastUpdatedSec)
                    packed == Pack(fullMsgs, fullMsg, ln)
                IN  /\ numPlayers' = numPlayers + 1
                    /\ rowIdx' = rowIdx + 1
                    /\ UNCHANGED <<pc, result>>
                    /\ IF TooStale(expireSec, sheetLastUpdatedSec)
                       THEN /\ line' = None
                            /\ UNCHANGED <<fullMsgs, fullMsg, requests>>
                       ELSE /\ line' = Some(ln)
                            /\ fullMsgs' = packed.fullMsgs
                            /\ fullMsg' = packed.fullMsg
                            /\ requests' =
                                   IF packed.fullMsgs # fullMsgs
                                   THEN Append(requests,
                                            UpdateRequest(MsgIds[1], fullMsg))
                                   ELSE requests
    /\ UNCHANGED <<env, event, tsv, tsvLines, sheetLastUpdatedSec, emitted,
                   idIdx, whRes, fetches>>

\* One iteration of the loop over the entrant rows.
ProcessRow ==
    /\ pc = "rows"
    /\ rowIdx <= Len(tsvLines)
    /\ LET tsvLine == tsvLines[rowIdx]
           cols == Split(tsvLine, "\t")
       IN  IF Trim(tsvLine) = ""
           THEN /\ line' = None
                /\ rowIdx' = rowIdx + 1
                /\ UNCHANGED <<pc, result, numPlayers, fullMsgs, fullMsg>>
           ELSE IF Len(cols) < 4
           THEN \* tag.trim() or str.trim() on undefined
                /\ line' = None
                /\ result' = Threw("TypeError")
                /\ pc' = "done"
                /\ UNCHANGED <<rowIdx, numPlayers, fullMsgs, fullMsg>>
           ELSE LET mcName == Trim(cols[1])
                    validSec == parseDateStr(cols[3])
                    expireSec == parseDateStr(cols[4])
                    ln == RenderLine(escapeRaw(mcName), validSec, expireSec,
                                     sheetLastUpdatedSec)
                    packed == Pack(fullMsgs, fullMsg, ln)
                IN  /\ numPlayers' = numPlayers + 1
                    /\ rowIdx' = rowIdx + 1
                    /\ UNCHANGED <<pc, result>>
                    /\ IF TooStale(expireSec, sheetLastUpdatedSec)
                       THEN /\ line' = None
                            /\ UNCHANGED <<fullMsgs, fullMsg>>
                       ELSE /\ line' = Some(ln)
                            /\ fullMsgs' = packed.fullMsgs
                            /\ fullMsg' = packed.fullMsg
    /\ UNCHANGED <<env, event, tsv, tsvLines, sheetLastUpdatedSec, emitted,
                   idIdx, whRes, fetches, requests>>

\* The rows are exhausted: the last block is pushed, the publish loop is
\* set up.
PushLast ==
    /\ pc = "rows"
    /\ rowIdx > Len(tsvLines)
    /\ fullMsgs' = Append(fullMsgs, fullMsg)
    /\ emitted' = Append(fullMsgs, fullMsg)
    /\ whRes' = ""
    /\ idIdx' = 1
    /\ pc' = "publish"
    /\ UNCHANGED <<env, event, tsv, tsvLines, sheetLastUpdatedSec, fullMsg,
                   numPlayers, rowIdx, line, fetches, requests, result>>

\* Publish that takes the last block instead of the first.
PublishLastBlock(outcome) ==
    /\ pc = "publish"
    /\ idIdx <= Len(MsgIds)
    /\ LET content == IF fullMsgs # <<>> THEN fullMsgs[Len(fullMsgs)] ELSE "-"
       IN  requests' = Append(requests, UpdateRequest(MsgIds[idIdx], content))
    /\ fullMsgs' = IF fullMsgs # <<>>
                   THEN SubSeq(fullMsgs, 1, Len(fullMsgs) - 1)
                   ELSE fullMsgs
    /\ IF outcome.throws
       THEN /\ result' = Threw("FetchError")
            /\ pc' = "done"
            /\ UNCHANGED <<whRes, idIdx>>
       ELSE /\ whRes' = whRes \o outcome.text \o "\n"
            /\ idIdx' = idIdx + 1
            /\ UNCHANGED <<pc, result>>
    /\ UNCHANGED <<env, event, tsv, tsvLines, sheetLastUpdatedSec, fullMsg,
                   numPlayers, rowIdx, line, emitted, fetches>>

\* Publish that leaves the loop when an update is answered with an error
\* status.
PublishStopsOnError(outcome) ==
    /\ pc = "publish"
    /\ idIdx <= Len(MsgIds)
    /\ LET content == IF fullMsgs # <<>> THEN Head(fullMsgs) ELSE "-"
       IN  requests' = Append(requests, UpdateRequest(MsgIds[idIdx], content))
    /\ fullMsgs' = IF fullMsgs # <<>> THEN Tail(fullMsgs) ELSE fullMsgs
    /\ IF outcome.throws
       THEN /\ result' = Threw("FetchError")
            /\ pc' = "done"
            /\ UNCHANGED <<whRes, idIdx>>
       ELSE /\ whRes' = whRes \o outcome.text \o "\n"
            /\ idIdx' = IF outcome.status >= 400 THEN Len(MsgIds) + 1
                         ELSE idIdx + 1
            /\ UNCHANGED <<pc, result>>
    /\ UNCHANGED <<env, event, tsv, tsvLines, sheetLastUpdatedSec, fullMsg,
                   numPlayers, rowIdx, line, emitted, fetches>>

\* One iteration of the publish loop: the request is issued, then the call
\* answers or throws.
Publish(outcome) ==
    /\ pc = "publish"
    /\ idIdx <= Len(MsgIds)
    /\ LET content == IF fullMsgs # <<>> THEN Head(fullMsgs) ELSE "-"
       IN  requests' = Append(requests, UpdateRequest(MsgIds[idIdx], content))
    /\ fullMsgs' = IF fullMsgs # <<>> THEN Tail(fullMsgs) ELSE fullMsgs
    /\ IF outcome.throws
       THEN /\ result' = Threw("FetchError")
            /\ pc' = "done"
            /\ UNCHANGED <<whRes, idIdx>>
       ELSE /\ whRes' = whRes \o outcome.text \o "\n"
            /\ idIdx' = idIdx + 1
            /\ UNCHANGED <<pc, result>>
    /\ UNCHANGED <<env, event, tsv, tsvLines, sheetLastUpdatedSec, fullMsg,
                   numPlayers, rowIdx, line, emitted, fetches>>

\* The response: toISOString throws a RangeError on an invalid time.
Return ==
    /\ pc = "publish"
    /\ idIdx > Len(MsgIds)
    /\ pc' = "done"
    /\ result' = IF sheetLastUpdatedSec.nan
                 THEN Threw("RangeError")
                 ELSE Returned(200,
                          Join(<<"Last updated: " \o toISOString(sheetLastUpdatedSec),
                                 "Players: " \o ToString(numPlayers)>>, "\n"))
    /\ UNCHANGED <<env, event, tsv, tsvLines, sheetLastUpdatedSec, fullMsgs,
                   fullMsg, numPlayers, rowIdx, line, emitted, idIdx, whRes,
                   fetches, requests>>

Next ==
    \/ \E ev \in Events : Invoke(ev)
    \/ \E text \in Rosters : FetchRoster(text)
    \/ FetchRosterFails
    \/ ProcessRow
    \/ PushLast
    \/ \E outcome \in UpdateOutcomes : Publish(outcome)
    \/ Return

Spec == Init /\ [][Next]_vars

----------------------------------------------------------------------------
(* Vocabulary of the properties *)

Range(f) == {f[k] : k \in DOMAIN f}
Last(q) == q[Len(q)]

\* a <= b on numbers
Le(a, b) == ~a.nan /\ ~b.nan /\ a.v <= b.v

\* A row of the roster as the row loop reads it: whether it is blank,
\* its columns, whether it is read as an entrant record (not blank, four
\* columns).
RowInfo(tsvLine) ==
    LET cols == Split(tsvLine, "\t")
        blank == Trim(tsvLine) = ""
    IN  [blank |-> blank, record |-> ~blank /\ Len(cols) >= 4, cols |-> cols]

\* The entrant rows of the fetched roster.
Table == [i \in 1..Len(tsvLines) |-> RowInfo(tsvLines[i])]

\* The escaped name and the two timestamps of a record.
NameOf(r) == escapeRaw(Trim(r.cols[1]))
ValidFrom(r) == parseDateStr(r.cols[3])
ValidUntil(r) == parseDateStr(r.cols[4])

\* validUntil < asOf - 31*86400
Stale(r) ==
    Lt(ValidUntil(r), Minus(sheetLastUpdatedSec, Num(31 * 86400)))
\* The three renderings a record can have.
Renderings(r) ==
    LET name == NameOf(r)
    IN  {UpcomingLine(name, ValidFrom(r), ValidUntil(r)),
         ActiveLine(name, ValidUntil(r)),
         ExpiredLine(name, ValidUntil(r))}
\* The line the record r is displayed as.
DisplayLineOf(r) ==
    RenderLine(NameOf(r), ValidFrom(r), ValidUntil(r), sheetLastUpdatedSec)

\* The row loop has run to its end (emitted holds at least the header).
Packed == emitted # <<>>
Ok200 == result.kind = "returned" /\ result.statusCode = 200
\* The row loop has just ended: the blocks are final, none is sent yet.
JustPacked == pc = "publish" /\ idIdx = 1 /\ requests = <<>>
\* Every block produced so far, the one being filled included (no block
\* is made or changed once the row loop has ended).
Blocks ==
    Range(fullMsgs) \cup Range(emitted)
        \cup (IF pc = "rows" THEN {fullMsg} ELSE {})

----------------------------------------------------------------------------
(* C1 *)

\* C1: an invocation whose request carries no secret parameter ends with
\* status 400 and body "Invalid secret", whatever the configuration, and
\* issues neither the roster fetch nor an update request.
C1_AbsentSecretRejected ==
    (pc # "start" /\ SecretParam(event) = None) =>
        /\ pc = "done"
        /\ result = Returned(400, "Invalid secret")
        /\ fetches = <<>>
        /\ requests = <<>>

----------------------------------------------------------------------------
(* C2 *)

ExpectedContent(k) == IF k <= Len(emitted) THEN emitted[k] ELSE "-"

\* C2: the k-th update request targets the k-th configured message id and
\* carries the k-th produced block, or "-" when fewer than k blocks exist;
\* an invocation that got past the checks and in which nothing threw ends
\* with status 200 after exactly one request per message id.
C2_OneUpdatePerMessageId ==
    /\ \A k \in 1..Len(requests) :
           /\ k <= Len(MsgIds)
           /\ requests[k] = UpdateRequest(MsgIds[k], ExpectedContent(k))
    /\ (pc = "done" /\ fetches # <<>> /\ result.kind # "threw") =>
           /\ Ok200
           /\ Len(requests) = Len(MsgIds)

\* Three blocks, two message ids: the third block is dropped, status 200.
C2_Witness ==
    /\ pc = "done"
    /\ Ok200
    /\ Len(MsgIds) = 2
    /\ Len(emitted) = 3
    /\ Len(requests) = 2

----------------------------------------------------------------------------
(* C3 *)

\* C3: a row whose validUntil is less than asOf - 31*86400 has no display
\* line in any block, and is counted: numPlayers, and the Players figure of
\* the response, is the number of rows after the first two that are not
\* blank.
C3_StaleHiddenButCounted ==
    LET T == Table
        shown == UNION {Range(Split(b, "\n")) : b \in Range(emitted)}
        count == Cardinality({i \in DOMAIN tsvLines : Trim(tsvLines[i]) # ""})
    IN  /\ JustPacked =>
               \A i \in DOMAIN T : (T[i].record /\ Stale(T[i])) =>
                   Renderings(T[i]) \cap shown = {}
        /\ Packed => numPlayers = count
        /\ Ok200 =>
               Split(result.body, "\n")[2] = "Players: " \o ToString(count)

\* A stale row and a blank row: one player counted, nothing displayed.
C3_Witness ==
    /\ pc = "done"
    /\ Ok200
    /\ \E i \in DOMAIN Table : Table[i].record /\ Stale(Table[i])
    /\ \E i \in DOMAIN Table : Table[i].blank
    /\ numPlayers = 1

----------------------------------------------------------------------------
(* C4 *)

\* C4: no block is longer than 2000 characters, except a block that is one
\* display line which is itself longer than that.
C4_BlockWithinLimit ==
    (pc = "rows" \/ JustPacked) =>
        \A b \in Blocks : Len(b) > 2000 =>
            \E i \in DOMAIN Table :
                Table[i].record /\ b = DisplayLineOf(Table[i])

\* A block of exactly 2000 characters holding the header and a line, and a
\* block that is one line of more than 2000.
C4_Witness ==
    /\ Len(emitted) = 2
    /\ Len(emitted[1]) = 2000
    /\ Len(Split(emitted[1], "\n")) > 1
    /\ Len(emitted[2]) > 2000
    /\ Len(Split(emitted[2], "\n")) = 1

----------------------------------------------------------------------------
(* C5 *)

\* An iteration of the row loop has completed; its row is rowIdx - 1.
Iterated == pc = "rows" /\ rowIdx > 1

\* C5 as stated: one rendering per displayed record, Upcoming exactly when
\* validFrom > asOf, Active exactly when validFrom <= asOf and
\* validUntil > asOf, Expired exactly when validUntil <= asOf.
C5_PartitionAsStated ==
    Iterated =>
        LET r == RowInfo(tsvLines[rowIdx - 1])
            name == NameOf(r)
            vf == ValidFrom(r)
            vu == ValidUntil(r)
            asOf == sheetLastUpdatedSec
        IN  /\ (line # None) <=> (r.record /\ ~Stale(r))
            /\ line # None =>
                   /\ (line[1] = UpcomingLine(name, vf, vu)) <=> Gt(vf, asOf)
                   /\ (line[1] = ActiveLine(name, vu))
                          <=> (Le(vf, asOf) /\ Gt(vu, asOf))
                   /\ (line[1] = ExpiredLine(name, vu)) <=> Le(vu, asOf)

\* C5 amended: one rendering per displayed record, chosen in priority
\* order by the two tests validFrom > asOf and validUntil > asOf alone:
\* Upcoming when the first holds, Active when the first fails and the
\* second holds, Expired when both fail (as they do on a NaN timestamp).
C5_PartitionByPriority ==
    Iterated =>
        LET r == RowInfo(tsvLines[rowIdx - 1])
            name == NameOf(r)
            vf == ValidFrom(r)
            vu == ValidUntil(r)
            asOf == sheetLastUpdatedSec
        IN  /\ (line # None) <=> (r.record /\ ~Stale(r))
            /\ line # None =>
                   /\ (line[1] = UpcomingLine(name, vf, vu)) <=> Gt(vf, asOf)
                   /\ (line[1] = ActiveLine(name, vu))
                          <=> (~Gt(vf, asOf) /\ Gt(vu, asOf))
                   /\ (line[1] = ExpiredLine(name, vu))
                          <=> (~Gt(vf, asOf) /\ ~Gt(vu, asOf))

\* A record with a malformed validFrom and a future validUntil is rendered
\* Active.
C5_Witness ==
    /\ Iterated
    /\ line # None
    /\ ~sheetLastUpdatedSec.nan
    /\ LET r == RowInfo(tsvLines[rowIdx - 1])
       IN  ValidFrom(r).nan /\ line[1] = ActiveLine(NameOf(r), ValidUntil(r))

----------------------------------------------------------------------------
(* C6 *)

\* The last iteration appended its line to the running block.
Appended == line # None /\ fullMsg # Trim(line[1])
\* The blocks that hold more than one display line, or the header and a
\* line.
MultiLineBlocks ==
    {b \in Blocks :
        /\ b # Header(sheetLastUpdatedSec)
        /\ Len(Split(b, "\n")) > 1}

\* C6 as stated: a line is appended exactly when the block, separator and
\* line included, stays strictly under 2000 characters; so every block of
\* more than one line is strictly shorter than 2000.
C6_AppendUnderLimitAsStated ==
    /\ (pc = "rows" /\ line # None) =>
           IF Appended
           THEN Len(fullMsg) < 2000
           ELSE /\ fullMsg = line[1]
                /\ Len(Last(fullMsgs)) + 1 + Len(line[1]) >= 2000
    /\ (pc = "rows" \/ JustPacked) => \A b \in MultiLineBlocks : Len(b) < 2000

\* C6 amended: a line is appended exactly when the block's length plus the
\* line's length, the separator not counted, is strictly under 2000; so
\* every block of more than one line is at most 2000 characters long.
C6_AppendUnderLimit ==
    /\ (pc = "rows" /\ line # None) =>
           IF Appended
           THEN Len(fullMsg) - 1 < 2000
           ELSE /\ fullMsg = line[1]
                /\ Len(Last(fullMsgs)) + Len(line[1]) >= 2000
    /\ (pc = "rows" \/ JustPacked) => \A b \in MultiLineBlocks : Len(b) <= 2000

\* The header block has just taken a line that fills it to exactly 2000.
C6_Witness ==
    /\ pc = "rows"
    /\ Appended
    /\ Len(fullMsg) = 2000

----------------------------------------------------------------------------
(* C7 *)

RECURSIVE DisplayText(_, _)
\* The display lines of the rows of T from i on, each after a newline.
DisplayText(T, i) ==
    IF i > Len(T) THEN ""
    ELSE (IF T[i].record /\ ~Stale(T[i])
          THEN "\n" \o DisplayLineOf(T[i])
          ELSE "") \o DisplayText(T, i + 1)

\* C7: once the rows are packed there is at least one block, and the
\* blocks read in order are the header followed by the display lines of the
\* non-excluded records in roster order, each once, every line whole in one
\* block.
C7_BlocksAreHeaderThenLines ==
    /\ (pc = "publish" \/ Ok200) => Len(emitted) >= 1
    /\ JustPacked =>
           Join(emitted, "\n")
               = Header(sheetLastUpdatedSec) \o DisplayText(Table, 1)

\* A line overflowed the header block and the next line joined it.
C7_Witness ==
    /\ JustPacked
    /\ Len(emitted) = 2
    /\ Len(Split(emitted[2], "\n")) = 2

----------------------------------------------------------------------------
(* C8 *)

\* C8 as stated: once the publish loop has issued its first request, the
\* invocation does not end before every message id has had its request.
C8_LoopExhaustsAsStated ==
    (pc = "done" /\ requests # <<>>) => Len(requests) = Len(MsgIds)

\* C8 amended: the response of an update call, whatever its status, never
\* stops the loop; the invocation ends with fewer requests than message ids
\* only when an update call threw, and that call is the last one issued.
C8_LoopExhaustsUnlessThrow ==
    /\ pc = "publish" => Len(requests) = idIdx - 1
    /\ (pc = "done" /\ requests # <<>>) =>
           \/ Len(requests) = Len(MsgIds)
           \/ result = Threw("FetchError") /\ Len(requests) = idIdx

\* The first update was answered 404, the second was still issued.
C8_Witness ==
    /\ pc = "done"
    /\ Len(requests) = 2
    /\ whRes = "Unknown Message\n\n"

----------------------------------------------------------------------------
(* C9 *)

\* C9: a malformed date, in the header cell or in an entrant row, does not
\* fail the invocation: every update request is issued and the handler
\* returns 200 with the two-line body.
C9_MalformedDateStillReturns ==
    (/\ pc = "done"
     /\ Packed
     /\ result # Threw("FetchError")
     /\ \/ sheetLastUpdatedSec.nan
        \/ \E i \in DOMAIN Table :
               /\ Table[i].record
               /\ ValidFrom(Table[i]).nan \/ ValidUntil(Table[i]).nan) =>
        /\ Ok200
        /\ Len(Split(result.body, "\n")) = 2
        /\ Len(requests) = Len(MsgIds)

----------------------------------------------------------------------------
(* C10 *)

\* The roster makes the parser throw: fewer than two rows, second row with
\* fewer than nine columns, or a non-blank entrant row with fewer than
\* four columns.
ParsingFails ==
    LET all == Split(tsv, "\n")
    IN  \/ Len(all) < 2
        \/ Len(Split(all[2], "\t")) < 9
        \/ \E i \in 3..Len(all) :
               Trim(all[i]) # "" /\ Len(Split(all[i], "\t")) < 4

\* C10: an invocation that aborts while parsing the roster has issued no
\* update request, and a roster that makes the parser throw never gets to
\* the publish loop.
C10_ParseFailureBeforeUpdates ==
    /\ result = Threw("TypeError") => requests = <<>>
    /\ pc \in {"start", "fetch", "rows"} => requests = <<>>
    /\ JustPacked => ~ParsingFails

\* The abort came on the second entrant row, after the first had closed a
\* block.
C10_Witness ==
    /\ pc = "done"
    /\ result = Threw("TypeError")
    /\ rowIdx = 2
    /\ fullMsgs # <<>>

====
